---- MODULE Spec2Model ----
(***************************************************************************)
(* Photocard generator (image only): src/image_compositor/                 *)
(* photocard-image-only.py.                                                *)
(*                                                                         *)
(* The module models                                                       *)
(*   - fit_cover, with Python's float arithmetic (IEEE-754 binary64,       *)
(*     round to nearest, ties to even) made explicit;                      *)
(*   - detect_black_box and build_overlay_mask, with OpenCV's 8-bit        *)
(*     BGR->HSV conversion, inRange, external contours, contourArea and    *)
(*     boundingRect;                                                       *)
(*   - composite_with_template on uint8 arrays;                            *)
(*   - main, statement by statement, with numpy's reference semantics      *)
(*     (arrays live in a heap, variables hold references).                 *)
(***************************************************************************)
EXTENDS Integers, Sequences, FiniteSets, TLC

Max(a, b) == IF a >= b THEN a ELSE b
Min(a, b) == IF a <= b THEN a ELSE b

(***************************************************************************)
(* Arbitrary-precision naturals: little-endian sequences of limbs in base  *)
(* BASE, without leading zero limbs.  They carry the 53-bit significands   *)
(* of Python floats, which do not fit the checker's machine integers.      *)
(***************************************************************************)
BASE == 8192

RECURSIVE BigOfInt(_)
BigOfInt(n) == IF n = 0 THEN <<>> ELSE <<n % BASE>> \o BigOfInt(n \div BASE)

RECURSIVE BigToInt(_)
BigToInt(a) == IF a = <<>> THEN 0 ELSE Head(a) + BASE * BigToInt(Tail(a))

RECURSIVE BigNorm(_)
BigNorm(a) ==
    IF a = <<>> THEN <<>>
    ELSE IF a[Len(a)] = 0 THEN BigNorm(SubSeq(a, 1, Len(a) - 1)) ELSE a

RECURSIVE BigCmpAt(_, _, _)
BigCmpAt(a, b, i) ==
    IF i = 0 THEN 0
    ELSE IF a[i] < b[i] THEN -1
    ELSE IF a[i] > b[i] THEN 1
    ELSE BigCmpAt(a, b, i - 1)

BigCmp(a, b) ==
    IF Len(a) < Len(b) THEN -1
    ELSE IF Len(a) > Len(b) THEN 1
    ELSE BigCmpAt(a, b, Len(a))

RECURSIVE BigMulCarry(_, _, _)
BigMulCarry(a, k, c) ==
    IF a = <<>> THEN BigOfInt(c)
    ELSE LET t == Head(a) * k + c
         IN  <<t % BASE>> \o BigMulCarry(Tail(a), k, t \div BASE)

BigMulSmall(a, k) == BigNorm(BigMulCarry(a, k, 0))

RECURSIVE BigSubBorrow(_, _, _)
BigSubBorrow(a, b, br) ==
    IF a = <<>> THEN <<>>
    ELSE LET bi == IF b = <<>> THEN 0 ELSE Head(b)
             t  == Head(a) - bi - br
             bt == IF b = <<>> THEN <<>> ELSE Tail(b)
         IN  IF t < 0 THEN <<t + BASE>> \o BigSubBorrow(Tail(a), bt, 1)
                      ELSE <<t>> \o BigSubBorrow(Tail(a), bt, 0)

BigSub(a, b) == BigNorm(BigSubBorrow(a, b, 0))

BigAddSmall(a, k) ==
    IF a = <<>> THEN BigOfInt(k) ELSE BigNorm(BigMulCarry(a, 1, k))

RECURSIVE BigHalfFrom(_, _, _)
BigHalfFrom(a, i, c) ==
    IF i = 0 THEN <<>>
    ELSE LET t == c * BASE + a[i]
         IN  BigHalfFrom(a, i - 1, t % 2) \o <<t \div 2>>

BigHalf(a) == BigNorm(BigHalfFrom(a, Len(a), 0))

BigIsOdd(a) == a /= <<>> /\ Head(a) % 2 = 1

(***************************************************************************)
(* Python float = IEEE-754 binary64.  A positive float is [m, e] with      *)
(* 2^52 <= m < 2^53 and value m * 2^e.  RoundDiv(n, d) is the float        *)
(* nearest to the rational n/d, ties to even.  The sizes in this model are *)
(* far from the subnormal and overflow ranges.                             *)
(***************************************************************************)
MantBits == 53
TwoPow53 == <<0, 0, 0, 0, 2>>
TwoPow52 == <<0, 0, 0, 0, 1>>

\* n/d brought into [1, 2) by doubling n or d; the value is (n/d) * 2^e.
\* Eight doublings are made per level of recursion.
ScaleStep(s) ==
    IF BigCmp(s.n, s.d) < 0 THEN [n |-> BigMulSmall(s.n, 2), d |-> s.d, e |-> s.e - 1]
    ELSE IF BigCmp(s.n, BigMulSmall(s.d, 2)) >= 0
         THEN [n |-> s.n, d |-> BigMulSmall(s.d, 2), e |-> s.e + 1]
    ELSE s

RECURSIVE ScaleQuot(_)
ScaleQuot(s) ==
    IF BigCmp(s.n, s.d) >= 0 /\ BigCmp(s.n, BigMulSmall(s.d, 2)) < 0 THEN s
    ELSE ScaleQuot(ScaleStep(ScaleStep(ScaleStep(ScaleStep(
                   ScaleStep(ScaleStep(ScaleStep(ScaleStep(s)))))))))

\* binary long division of r/d (1 <= r/d < 2) until the quotient q has
\* MantBits bits; r is then twice the remainder.  Eight bits are produced
\* per level of recursion.
LongDivBit(s, d, b) ==
    [r |-> BigMulSmall(IF b = 1 THEN BigSub(s.r, d) ELSE s.r, 2),
     q |-> BigAddSmall(BigMulSmall(s.q, 2), b)]

LongDivStep(s, d) ==
    IF BigCmp(s.q, TwoPow52) >= 0 THEN s
    ELSE LongDivBit(s, d, IF BigCmp(s.r, d) >= 0 THEN 1 ELSE 0)

RECURSIVE LongDiv(_, _)
LongDiv(s, d) ==
    IF BigCmp(s.q, TwoPow52) >= 0 THEN s
    ELSE LongDiv(LongDivStep(LongDivStep(LongDivStep(LongDivStep(
                 LongDivStep(LongDivStep(LongDivStep(LongDivStep(s, d), d), d), d),
                 d), d), d), d), d)

\* a significand that rounding carried to 2^53 is 2^52 with the next exponent
Renormalise(q, e) ==
    IF BigCmp(q, TwoPow53) = 0
    THEN [m |-> TwoPow52, e |-> e - (MantBits - 1) + 1]
    ELSE [m |-> q, e |-> e - (MantBits - 1)]

\* c compares the remainder with half a unit in the last place
RoundNearestEven(q, c, e) ==
    Renormalise(IF c > 0 \/ (c = 0 /\ BigIsOdd(q)) THEN BigAddSmall(q, 1) ELSE q, e)

RoundRemainder(qr, d, e) == RoundNearestEven(qr.q, BigCmp(qr.r, d), e)

RoundScaled(s) == RoundRemainder(LongDiv([r |-> s.n, q |-> <<>>], s.d), s.d, s.e)

RoundDiv(n, d) == RoundScaled(ScaleQuot([n |-> n, d |-> d, e |-> 0]))

ShiftExponent(x, k) == [m |-> x.m, e |-> x.e + k]

\* int / int of Python (true division)
FloatDivII(a, b) == RoundDiv(BigOfInt(a), BigOfInt(b))
\* int / float, int * float and float < float of Python
FloatDivIF(t, x) == ShiftExponent(RoundDiv(BigOfInt(t), x.m), 0 - x.e)
FloatMulIF(t, x) == ShiftExponent(RoundDiv(BigMulSmall(x.m, t), <<1>>), x.e)
FloatLess(x, y) == x.e < y.e \/ (x.e = y.e /\ BigCmp(x.m, y.m) < 0)

\* shifts by k bits; a limb holds 13 bits (BASE = 2^13)
RECURSIVE BigShiftRight(_, _)
BigShiftRight(a, k) ==
    IF k = 0 \/ a = <<>> THEN a
    ELSE IF k >= 13 THEN BigShiftRight(Tail(a), k - 13)
    ELSE BigShiftRight(BigHalf(a), k - 1)
RECURSIVE BigShiftLeft(_, _)
BigShiftLeft(a, k) ==
    IF k = 0 THEN a
    ELSE IF k >= 13 THEN BigShiftLeft(<<0>> \o a, k - 13)
    ELSE BigShiftLeft(BigMulSmall(a, 2), k - 1)

\* int(float): truncation
FloatToInt(x) ==
    IF x.e >= 0 THEN BigToInt(BigShiftLeft(x.m, x.e))
    ELSE BigToInt(BigShiftRight(x.m, 0 - x.e))

(***************************************************************************)
(* Images.  An array of shape (h, w, 3) is [w, h, px] with px a function   *)
(* from <<column, row>> (0-based) to the pixel <<b, g, r>>; a one-channel  *)
(* array has integers for pixels.                                          *)
(***************************************************************************)
Coords(w, h) == (0 .. (w - 1)) \X (0 .. (h - 1))

RoundHalfEven(n, d) ==
    LET q == n \div d
        r == n % d
    IN  IF 2 * r > d \/ (2 * r = d /\ q % 2 = 1) THEN q + 1 ELSE q

(***************************************************************************)
(* cv2.cvtColor(..., COLOR_BGR2HSV) on 8-bit pixels: OpenCV's fixed-point  *)
(* conversion with hsv_shift = 12 and hue range 180.                       *)
(***************************************************************************)
HsvShift == 4096

sdiv_table(v) == IF v = 0 THEN 0 ELSE RoundHalfEven(255 * HsvShift, v)

hdiv_table180(d) == IF d = 0 THEN 0 ELSE RoundHalfEven(180 * HsvShift, 6 * d)

HueSector(b, g, r, v, diff) ==
    IF v = r THEN g - b
    ELSE IF v = g THEN b - r + 2 * diff
    ELSE r - g + 4 * diff

HueWrap(h) == IF h < 0 THEN h + 180 ELSE h

\* saturate_cast<uchar>
SaturateU8(n) == Min(Max(n, 0), 255)

HsvOf(b, g, r, v, diff) ==
    <<SaturateU8(HueWrap((HueSector(b, g, r, v, diff) * hdiv_table180(diff)
                             + (HsvShift \div 2)) \div HsvShift)),
      (diff * sdiv_table(v) + (HsvShift \div 2)) \div HsvShift,
      v>>

BGR2HSV(p) ==
    HsvOf(p[1], p[2], p[3], Max(p[1], Max(p[2], p[3])),
          Max(p[1], Max(p[2], p[3])) - Min(p[1], Min(p[2], p[3])))

LOWER == <<0, 0, 0>>
UPPER == <<179, 80, 60>>

inRange(q, lower, upper) ==
    IF \A k \in 1 .. 3 : lower[k] <= q[k] /\ q[k] <= upper[k] THEN 255 ELSE 0

\* lines 27-30 and 39-41: the one-channel mask of "black" pixels
BlackMask(img) ==
    [w |-> img.w, h |-> img.h,
     px |-> [p \in DOMAIN img.px |-> inRange(BGR2HSV(img.px[p]), LOWER, UPPER)]]

(***************************************************************************)
(* cv2.findContours(mask, RETR_EXTERNAL, CHAIN_APPROX_SIMPLE): the outer   *)
(* borders of the 8-connected regions of non-zero pixels that are not      *)
(* enclosed by another region.  A contour is represented by the region it  *)
(* borders.                                                                *)
(***************************************************************************)
Nbrs8(p) == {<<p[1] + dx, p[2] + dy>> : dx \in {-1, 0, 1}, dy \in {-1, 0, 1}} \ {p}
Nbrs4(p) == {<<p[1] + 1, p[2]>>, <<p[1] - 1, p[2]>>, <<p[1], p[2] + 1>>, <<p[1], p[2] - 1>>}

\* The pixels of region connected to s.seen, through neighbours in 8 or 4
\* directions (conn).  s.frontier holds the pixels reached last; eight
\* rounds of growth are made per level of recursion.
FloodWith(s, nxt) == [seen |-> s.seen \cup nxt, frontier |-> nxt]

FloodStep(s, region, conn) ==
    IF s.frontier = {} THEN s
    ELSE FloodWith(s, ((UNION {IF conn = 8 THEN Nbrs8(p) ELSE Nbrs4(p) : p \in s.frontier})
                          \cap region) \ s.seen)

RECURSIVE Flood(_, _, _)
Flood(s, region, conn) ==
    IF s.frontier = {} THEN s.seen
    ELSE Flood(FloodStep(FloodStep(FloodStep(FloodStep(
               FloodStep(FloodStep(FloodStep(FloodStep(s, region, conn), region, conn),
               region, conn), region, conn), region, conn), region, conn),
               region, conn), region, conn), region, conn)

ScanFirst(S) ==
    CHOOSE p \in S : \A q \in S : p[2] < q[2] \/ (p[2] = q[2] /\ p[1] <= q[1])

RECURSIVE Components(_)
RECURSIVE SplitOff(_, _)
SplitOff(S, c) == {c} \cup Components(S \ c)

ComponentOf(p, S) == Flood([seen |-> {p}, frontier |-> {p}], S, 8)

Components(S) == IF S = {} THEN {} ELSE SplitOff(S, ComponentOf(ScanFirst(S), S))

\* the background reachable from outside the image (4-connected), the image
\* being surrounded by one ring of background
Ring(w, h) ==
    {p \in Coords(w + 2, h + 2) : p[1] \in {0, w + 1} \/ p[2] \in {0, h + 1}}

Shift(S, dx, dy) == {<<p[1] + dx, p[2] + dy>> : p \in S}

FloodFrom(ring, bg) == Flood([seen |-> ring, frontier |-> ring], ring \cup bg, 4)

OuterBackground(mask) ==
    Shift(FloodFrom(Ring(mask.w, mask.h),
                    Shift({q \in DOMAIN mask.px : mask.px[q] = 0}, 1, 1)), -1, -1)

ExternalOf(comps, outer) ==
    {c \in comps : \E p \in c : Nbrs4(p) \cap outer /= {}}

findContours(mask) ==
    ExternalOf(Components({q \in DOMAIN mask.px : mask.px[q] /= 0}), OuterBackground(mask))

boundingRect(c) ==
    LET x0 == CHOOSE x \in {p[1] : p \in c} : \A p \in c : x <= p[1]
        x1 == CHOOSE x \in {p[1] : p \in c} : \A p \in c : x >= p[1]
        y0 == CHOOSE y \in {p[2] : p \in c} : \A p \in c : y <= p[2]
        y1 == CHOOSE y \in {p[2] : p \in c} : \A p \in c : y >= p[2]
    IN  <<x0, y0, x1 - x0 + 1, y1 - y0 + 1>>

\* cv2.contourArea: the area of the polygon through the border pixels'
\* centres; for a region with a complete rectangular outline the polygon
\* is the rectangle through the four corner pixels.
contourArea(c) ==
    LET b == boundingRect(c) IN (b[3] - 1) * (b[4] - 1)

\* the operands max(cnts, key=cv2.contourArea) can return: the order of
\* equal-area contours in cnts is findContours' business
MaxAreaContours(cnts) ==
    {c \in cnts : \A d \in cnts : contourArea(d) <= contourArea(c)}

\* An inset of one pixel a side instead of two
InsetByOne(b) == <<b[1] + 1, b[2] + 1, Max(1, b[3] - 2), Max(1, b[4] - 2)>>

\* line 35
InsetRect(b) == <<b[1] + 2, b[2] + 2, Max(1, b[3] - 4), Max(1, b[4] - 4)>>

\* line 35 for each contour max() can return
InsetsOf(largest) == {[raised |-> FALSE, rect |-> InsetRect(boundingRect(c))] : c \in largest}

\* A detection that falls back to the first pixel when there is no contour
DetectOrFallBack(cnts) ==
    IF cnts = {}
    THEN {[raised |-> FALSE, rect |-> <<0, 0, 1, 1>>]}
    ELSE {[raised |-> FALSE,
           rect |-> <<boundingRect(c)[1] + 2, boundingRect(c)[2] + 2,
                      Max(1, boundingRect(c)[3] - 4), Max(1, boundingRect(c)[4] - 4)>>] :
             c \in MaxAreaContours(cnts)}

\* lines 32-35
DetectFromContours(cnts) ==
    IF cnts = {}
    THEN {[raised |-> TRUE, rect |-> <<>>]}
    ELSE InsetsOf(MaxAreaContours(cnts))

\* lines 25-35; the result is the set of outcomes the call can have
detect_black_box(template_bgr) == DetectFromContours(findContours(BlackMask(template_bgr)))

\* A merge of the black mask itself, without cv2.bitwise_not
MergeSame(black_mask) ==
    [w |-> black_mask.w, h |-> black_mask.h,
     px |-> [p \in DOMAIN black_mask.px |->
                <<black_mask.px[p], black_mask.px[p], black_mask.px[p]>>]]

\* lines 42-43: cv2.bitwise_not and cv2.merge
MergeNot(black_mask) ==
    [w |-> black_mask.w, h |-> black_mask.h,
     px |-> [p \in DOMAIN black_mask.px |->
                <<255 - black_mask.px[p], 255 - black_mask.px[p], 255 - black_mask.px[p]>>]]

\* lines 37-43
build_overlay_mask(template_bgr) == MergeNot(BlackMask(template_bgr))

(***************************************************************************)
(* uint8 arithmetic of numpy: &, ~ and + on 8-bit values.                  *)
(***************************************************************************)
RECURSIVE BitAnd(_, _)
BitAnd(a, b) ==
    IF a = 0 \/ b = 0 THEN 0
    ELSE (a % 2) * (b % 2) + 2 * BitAnd(a \div 2, b \div 2)

\* A composition with the roles of the mask exchanged
CompositeSwapped(b, t, m) == (BitAnd(b, m) + BitAnd(t, 255 - m)) % 256

\* line 47 on one channel of one pixel
CompositeChannel(b, t, m) == (BitAnd(b, 255 - m) + BitAnd(t, m)) % 256

\* lines 45-47, the three arrays having the same shape
composite_with_template(base_bgr, template_bgr, mask3) ==
    [w |-> base_bgr.w, h |-> base_bgr.h,
     px |-> [p \in DOMAIN base_bgr.px |->
                [k \in 1 .. 3 |->
                    CompositeChannel(base_bgr.px[p][k], template_bgr.px[p][k],
                                     mask3.px[p][k])]]]

(***************************************************************************)
(* Python slicing a[start:stop] of a length-n axis.                        *)
(***************************************************************************)
SliceIndex(k, n) == IF k < 0 THEN Max(k + n, 0) ELSE Min(k, n)

SliceRange(start, stop, n) ==
    LET lo == SliceIndex(start, n)
        hi == SliceIndex(stop, n)
    IN  [lo |-> lo, len |-> Max(hi - lo, 0)]

(***************************************************************************)
(* fit_cover, lines 63-75.  FitGeometry is the arithmetic: the size passed *)
(* to cv2.resize, the crop offsets and the shape of the returned slice.    *)
(* cv2.resize raises when the requested size is empty.                     *)
(***************************************************************************)
FitRecord(new_w, new_h, x, y, rows, cols) ==
    [raised |-> new_w <= 0 \/ new_h <= 0,
     new_w |-> new_w, new_h |-> new_h, x |-> x, y |-> y,
     row0 |-> rows.lo, out_h |-> rows.len,
     col0 |-> cols.lo, out_w |-> cols.len]

\* lines 73-75
FitCrop(new_w, new_h, x, y, tw, th) ==
    FitRecord(new_w, new_h, x, y, SliceRange(y, y + th, new_h), SliceRange(x, x + tw, new_w))

FitOffsets(new_w, new_h, tw, th) ==
    FitCrop(new_w, new_h, (new_w - tw) \div 2, (new_h - th) \div 2, tw, th)

\* lines 68-71
FitBranch(narrow, src_as, tw, th) ==
    IF narrow
    THEN FitOffsets(tw, FloatToInt(FloatDivIF(tw, src_as)), tw, th)
    ELSE FitOffsets(FloatToInt(FloatMulIF(th, src_as)), th, tw, th)

FitAspects(src_as, tgt_as, tw, th) == FitBranch(FloatLess(src_as, tgt_as), src_as, tw, th)

\* lines 65-75
FitGeometry(sw, sh, tw, th) ==
    FitAspects(FloatDivII(sw, sh), FloatDivII(tw, th), tw, th)

\* cv2.resize(..., INTER_AREA) of a single-colour image: every output pixel
\* is the average of equal values.  The photos of this model are
\* single-coloured.
resize(src_bgr, new_w, new_h) ==
    [w |-> new_w, h |-> new_h,
     px |-> [p \in Coords(new_w, new_h) |-> src_bgr.px[<<0, 0>>]]]

\* line 75: resized[y:y + th, x:x + tw]
Crop(resized, g) ==
    [w |-> g.out_w, h |-> g.out_h,
     px |-> [p \in Coords(g.out_w, g.out_h) |->
                resized.px[<<g.col0 + p[1], g.row0 + p[2]>>]]]

FitWith(src_bgr, g) ==
    IF g.raised THEN [raised |-> TRUE, img |-> <<>>]
    ELSE [raised |-> FALSE, img |-> Crop(resize(src_bgr, g.new_w, g.new_h), g)]

\* lines 63-75
fit_cover(src_bgr, tw, th) == FitWith(src_bgr, FitGeometry(src_bgr.w, src_bgr.h, tw, th))

(***************************************************************************)
(* Inputs.  Pixel colours, and templates drawn as rectangles ("boxes") of  *)
(* black-classified ink on a frame-coloured ground.  A box has a complete  *)
(* outline in ink; its inside is ink ("solid"), ground ("hollow") or       *)
(* ground with one ink pixel in the middle ("dot").                        *)
(***************************************************************************)
BLACK  == <<0, 0, 0>>
DARK   == <<40, 40, 40>>
WHITE  == <<255, 255, 255>>
MAROON == <<0, 0, 50>>
TEAL   == <<41, 60, 60>>
GREEN  == <<10, 200, 30>>
BLUE   == <<200, 10, 10>>

InBox(p, b) ==
    /\ b.x <= p[1] /\ p[1] < b.x + b.w
    /\ b.y <= p[2] /\ p[2] < b.y + b.h

OnOutline(p, b) ==
    \/ p[1] \in {b.x, b.x + b.w - 1}
    \/ p[2] \in {b.y, b.y + b.h - 1}

BoxPixel(p, b, ground) ==
    IF OnOutline(p, b) \/ b.fill = "solid" THEN b.ink
    ELSE IF b.fill = "dot" /\ p = <<b.x + (b.w \div 2), b.y + (b.h \div 2)>> THEN b.ink
    ELSE ground

\* the decoded template file: what cv2.imread returns at line 95
TemplateImage(t) ==
    [w |-> t.w, h |-> t.h,
     px |-> [p \in Coords(t.w, t.h) |->
                IF \E k \in 1 .. Len(t.boxes) : InBox(p, t.boxes[k])
                THEN LET k == CHOOSE j \in 1 .. Len(t.boxes) : InBox(p, t.boxes[j])
                     IN  BoxPixel(p, t.boxes[k], t.ground)
                ELSE t.ground]]

Box(x, y, w, h, ink, fill) ==
    [x |-> x, y |-> y, w |-> w, h |-> h, ink |-> ink, fill |-> fill]

\* two boxes with at least one ground pixel between them in some axis
Apart(a, b) ==
    \/ a.x + a.w < b.x \/ b.x + b.w < a.x
    \/ a.y + a.h < b.y \/ b.y + b.h < a.y

Fills(w, h) ==
    IF w >= 5 /\ h >= 5 THEN {"solid", "hollow", "dot"}
    ELSE IF w >= 3 /\ h >= 3 THEN {"solid", "hollow"}
    ELSE {"solid"}

VARIABLES
    pc,
    fit_in, fit_out,
    det_in, det_out,
    cmp_in, cmp_out,
    templateFile, jsonFile,
    heap,
    template_bgr, overlay_src, mask3, window,
    articles, total, i, img_url,
    photo_bgr, fitted, base, composed,
    disk, log, fetches, error

pureVars == <<fit_in, fit_out, det_in, det_out, cmp_in, cmp_out>>
inputs   == <<templateFile, jsonFile>>
setup    == <<template_bgr, overlay_src, mask3, window>>
listing  == <<articles, total>>
locals   == <<img_url, photo_bgr, fitted, base, composed>>
outputs  == <<disk, log, fetches, error>>
mainVars == <<inputs, heap, setup, listing, i, locals, outputs>>

vars == <<pc, pureVars, mainVars>>

Idle == "idle"

(***************************************************************************)
(* fit_cover as a function of the source size and the target size.         *)
(***************************************************************************)
MaxSrc == 3
MaxTgt == 3

SrcSizes == ((1 .. MaxSrc) \X (1 .. MaxSrc)) \cup {<<200, 100>>, <<15, 11>>, <<9, 7>>, <<1, 49>>}
TgtSizes == ((1 .. MaxTgt) \X (1 .. MaxTgt)) \cup {<<50, 50>>, <<15, 11>>, <<9, 1>>, <<1, 49>>}

FitIdle == fit_in = Idle /\ fit_out = Idle
DetIdle == det_in = Idle /\ det_out = Idle
CmpIdle == cmp_in = Idle /\ cmp_out = Idle
MainIdle ==
    /\ templateFile = Idle /\ jsonFile = Idle /\ heap = Idle
    /\ template_bgr = Idle /\ overlay_src = Idle /\ mask3 = Idle /\ window = Idle
    /\ articles = Idle /\ total = Idle /\ i = Idle /\ img_url = Idle
    /\ photo_bgr = Idle /\ fitted = Idle /\ base = Idle /\ composed = Idle
    /\ disk = Idle /\ log = Idle /\ fetches = Idle /\ error = Idle

FitInit ==
    /\ pc = "fit_call"
    /\ \E s \in SrcSizes, t \in TgtSizes :
          fit_in = [sw |-> s[1], sh |-> s[2], tw |-> t[1], th |-> t[2]]
    /\ fit_out = Idle
    /\ DetIdle /\ CmpIdle /\ MainIdle

FitCall ==
    /\ pc = "fit_call"
    /\ fit_out' = FitGeometry(fit_in.sw, fit_in.sh, fit_in.tw, fit_in.th)
    /\ pc' = "fit_return"
    /\ UNCHANGED <<fit_in, det_in, det_out, cmp_in, cmp_out, mainVars>>

FitNext == FitCall

SpecFit == FitInit /\ [][FitNext]_vars

\* C1: for every source and target size of at least 1x1, fit_cover returns
\* exactly tw columns and th rows: the resized size is at least the target
\* in both axes and the crop offsets are not negative.
FitReturnsTargetSize ==
    pc = "fit_return" =>
        /\ ~fit_out.raised
        /\ fit_out.new_w >= fit_in.tw /\ fit_out.new_h >= fit_in.th
        /\ fit_out.x >= 0 /\ fit_out.y >= 0
        /\ fit_out.out_w = fit_in.tw /\ fit_out.out_h = fit_in.th

\* C9: the resized size is (tw, floor(tw*sh/sw)) when sw/sh < tw/th and
\* (floor(th*sw/sh), th) otherwise, the crop offsets are the floored halves
\* of the excess; 200x100 into 50x50 resizes to 100x50 and crops at (25, 0).
FitResizeIsExactFloor ==
    pc = "fit_return" =>
        LET sw == fit_in.sw
            sh == fit_in.sh
            tw == fit_in.tw
            th == fit_in.th
        IN  /\ IF sw * th < tw * sh
               THEN fit_out.new_w = tw /\ fit_out.new_h = (tw * sh) \div sw
               ELSE fit_out.new_w = (th * sw) \div sh /\ fit_out.new_h = th
            /\ fit_out.x = (fit_out.new_w - tw) \div 2
            /\ fit_out.y = (fit_out.new_h - th) \div 2
            /\ (<<sw, sh, tw, th>> = <<200, 100, 50, 50>> =>
                    /\ fit_out.new_w = 100 /\ fit_out.new_h = 50
                    /\ fit_out.x = 25 /\ fit_out.y = 0)

(***************************************************************************)
(* detect_black_box as a function of the template.                         *)
(***************************************************************************)
MaxTW == 7
MaxTH == 6

Inks == {<<WHITE, BLACK>>, <<MAROON, DARK>>}

BoxesIn(w, h, ink) ==
    {Box(x, y, bw, bh, ink, f) :
        x \in 0 .. (w - 1), y \in 0 .. (h - 1), bw \in 1 .. w, bh \in 1 .. h,
        f \in {"solid", "hollow", "dot"}}

OneBoxTemplates(w, h) ==
    UNION {{[w |-> w, h |-> h, ground |-> gi[1], boxes |-> <<b>>] :
               b \in {c \in BoxesIn(w, h, gi[2]) :
                         c.x + c.w <= w /\ c.y + c.h <= h /\ c.fill \in Fills(c.w, c.h)}} :
           gi \in Inks}

\* a second, small box in the bottom right corner, apart from the first
TwoBoxTemplates(w, h) ==
    {[w |-> t.w, h |-> t.h, ground |-> t.ground, boxes |-> t.boxes \o <<c>>] :
        t \in {u \in OneBoxTemplates(w, h) : u.boxes[1].fill = "solid"},
        c \in {Box(w - k, h - k, k, k, BLACK, "solid") : k \in 1 .. 2}}

DetTemplates ==
    OneBoxTemplates(MaxTW, MaxTH)
    \cup {t \in TwoBoxTemplates(MaxTW, MaxTH) : Apart(t.boxes[1], t.boxes[2])}
    \cup {[w |-> MaxTW, h |-> MaxTH, ground |-> g, boxes |-> <<>>] : g \in {WHITE, MAROON, TEAL}}

DetInit ==
    /\ pc = "det_call"
    /\ det_in \in DetTemplates
    /\ det_out = Idle
    /\ FitIdle /\ CmpIdle /\ MainIdle

DetCall ==
    /\ pc = "det_call"
    /\ det_out' \in detect_black_box(TemplateImage(det_in))
    /\ pc' = "det_return"
    /\ UNCHANGED <<det_in, fit_in, fit_out, cmp_in, cmp_out, mainVars>>

DetNext == DetCall

SpecDetect == DetInit /\ [][DetNext]_vars

\* C3: whenever the mask has a black pixel, the returned rectangle
\* (x, y, w, h) has w >= 1, h >= 1, x >= 0, y >= 0, x + w <= W and
\* y + h <= H: it lies inside the template, also for regions 1 to 4 pixels
\* wide or tall and for regions touching the right or bottom edge.
DetectedRectInsideTemplate ==
    (pc = "det_return" /\ ~det_out.raised) =>
        LET r == det_out.rect
        IN  /\ r[3] >= 1 /\ r[4] >= 1 /\ r[1] >= 0 /\ r[2] >= 0
            /\ r[1] + r[3] <= det_in.w
            /\ r[2] + r[4] <= det_in.h

\* C4: for a template with exactly one black rectangular region with
\* bounding box (bx, by, bw, bh), detect_black_box returns
\* (bx + 2, by + 2, max(1, bw - 4), max(1, bh - 4)); a 200x200 rectangle at
\* (100, 100) gives (102, 102, 196, 196).
SingleBox == Len(det_in.boxes) = 1 /\ det_in.boxes[1].fill = "solid"

DetectReturnsInsetOfTheRectangle ==
    /\ (pc = "det_return" /\ SingleBox) =>
          LET b == det_in.boxes[1]
          IN  /\ ~det_out.raised
              /\ det_out.rect[1] = b.x + 2
              /\ det_out.rect[2] = b.y + 2
              /\ det_out.rect[3] = (IF b.w - 4 >= 1 THEN b.w - 4 ELSE 1)
              /\ det_out.rect[4] = (IF b.h - 4 >= 1 THEN b.h - 4 ELSE 1)
    /\ pc = "det_return" => InsetRect(<<100, 100, 200, 200>>) = <<102, 102, 196, 196>>

DetectReturnsInsetWitness ==
    /\ pc = "det_return" /\ SingleBox
    /\ det_in.boxes[1].w >= 6 /\ det_in.boxes[1].h = 3
    /\ det_out.rect = <<det_in.boxes[1].x + 2, det_in.boxes[1].y + 2, det_in.boxes[1].w - 4, 1>>

(***************************************************************************)
(* composite_with_template as a function of three arrays of one shape.     *)
(***************************************************************************)
CmpShapes == {<<1, 1>>, <<2, 1>>}
CmpColours == {BLACK, GREEN, WHITE}
MaskValues == {0, 128, 255}
CmpMasks == {<<a, b, c>> : a \in MaskValues, b \in MaskValues, c \in MaskValues}

\* in a two-pixel array the second pixel is fixed, the first one varies
CmpArrays(shape, first, second) ==
    [w |-> shape[1], h |-> shape[2],
     px |-> [p \in Coords(shape[1], shape[2]) |-> IF p = <<0, 0>> THEN first ELSE second]]

CmpInit ==
    /\ pc = "cmp_call"
    /\ \E shape \in CmpShapes, b \in CmpColours, t \in CmpColours, m \in CmpMasks :
          cmp_in = [base  |-> CmpArrays(shape, b, GREEN),
                    tmpl  |-> CmpArrays(shape, t, DARK),
                    mask3 |-> CmpArrays(shape, m, <<255, 0, 255>>)]
    /\ cmp_out = Idle
    /\ FitIdle /\ DetIdle /\ MainIdle

CmpCall ==
    /\ pc = "cmp_call"
    /\ cmp_out' = composite_with_template(cmp_in.base, cmp_in.tmpl, cmp_in.mask3)
    /\ pc' = "cmp_return"
    /\ UNCHANGED <<cmp_in, fit_in, fit_out, det_in, det_out, mainVars>>

CmpNext == CmpCall

SpecCompose == CmpInit /\ [][CmpNext]_vars

\* C6: with every mask channel value 0 or 255, the result has at each pixel
\* and channel the template's value where the mask is set and the base's
\* value where it is clear, the sum of the two masked terms staying below
\* 256; with an all-set mask the result equals the template whatever the
\* base.
MaskIsBinary(m) == \A p \in DOMAIN m.px : \A k \in 1 .. 3 : m.px[p][k] \in {0, 255}
MaskAllSet(m) == \A p \in DOMAIN m.px : \A k \in 1 .. 3 : m.px[p][k] = 255

CompositeSelectsByMask ==
    (pc = "cmp_return" /\ MaskIsBinary(cmp_in.mask3)) =>
        /\ cmp_out.w = cmp_in.tmpl.w /\ cmp_out.h = cmp_in.tmpl.h
        /\ \A p \in DOMAIN cmp_in.mask3.px : \A k \in 1 .. 3 :
              /\ cmp_in.mask3.px[p][k] = 255 => cmp_out.px[p][k] = cmp_in.tmpl.px[p][k]
              /\ cmp_in.mask3.px[p][k] = 0 => cmp_out.px[p][k] = cmp_in.base.px[p][k]
              /\ BitAnd(cmp_in.base.px[p][k], 255 - cmp_in.mask3.px[p][k])
                    + BitAnd(cmp_in.tmpl.px[p][k], cmp_in.mask3.px[p][k]) <= 255
        /\ MaskAllSet(cmp_in.mask3) => cmp_out = cmp_in.tmpl

CompositeSelectsWitness ==
    /\ pc = "cmp_return"
    /\ cmp_in.mask3.px[<<0, 0>>] = <<255, 0, 255>>
    /\ cmp_in.base.px[<<0, 0>>] = GREEN /\ cmp_in.tmpl.px[<<0, 0>>] = WHITE
    /\ cmp_out.px[<<0, 0>>] = <<255, 200, 255>>

(***************************************************************************)
(* main, lines 87-126.  The files of a run: the template, the article      *)
(* list and the images the articles refer to.                              *)
(*                                                                         *)
(* Strings are sequences of tokens (" " is whitespace, "http://" a URL     *)
(* scheme).  JSON values carry their type in the field t.                  *)
(***************************************************************************)
JNull   == [t |-> "null"]
JNum(n) == [t |-> "number", v |-> n]
JStr(x) == [t |-> "string", v |-> x]
\* an article object with the key "article_image"
JArticle(v) == [t |-> "object", has |-> TRUE, article_image |-> v]

Whitespace == {" "}

RECURSIVE LStrip(_)
LStrip(x) == IF x /= <<>> /\ Head(x) \in Whitespace THEN LStrip(Tail(x)) ELSE x

RECURSIVE RStrip(_)
RStrip(x) ==
    IF x /= <<>> /\ x[Len(x)] \in Whitespace THEN RStrip(SubSeq(x, 1, Len(x) - 1)) ELSE x

\* str.strip()
strip(x) == RStrip(LStrip(x))

\* Python truth value of a JSON value
Truthy(v) ==
    CASE v.t = "null"   -> FALSE
      [] v.t = "number" -> v.v /= 0
      [] v.t = "string" -> v.v /= <<>>
      [] OTHER          -> TRUE

\* art.get("article_image") or ""
ImageOrEmpty(art) ==
    LET got == IF art.has THEN art.article_image ELSE JNull
    IN  IF Truthy(got) THEN got ELSE JStr(<<>>)

(***************************************************************************)
(* The images behind the references.                                       *)
(***************************************************************************)
Png(w, h, colour) == [kind |-> "png", w |-> w, h |-> h, colour |-> colour]
Garbage == [kind |-> "garbage", w |-> 0, h |-> 0, colour |-> BLACK]

UrlTall  == <<"http://", "b.png">>
PathWide == <<"a.png">>
PathBad  == <<"bad.png">>

\* requests.get: status and body
HttpGet(url) ==
    IF url = UrlTall THEN [status |-> 200, content |-> Png(1, 49, BLUE)]
    ELSE [status |-> 404, content |-> Garbage]

ReadBytes(path) == IF path = PathWide THEN Png(2, 1, GREEN) ELSE Garbage

NoArray == [w |-> 0, h |-> 0, px |-> <<>>]

\* cv2.imdecode: the array, or None (NoArray) for bytes that are no image
imdecode(data) ==
    IF data.kind = "png"
    THEN [w |-> data.w, h |-> data.h, px |-> [p \in Coords(data.w, data.h) |-> data.colour]]
    ELSE NoArray

\* lines 49-61
load_cv(path_or_url) ==
    IF Head(path_or_url) \in {"http://", "https://"}
    THEN LET r == HttpGet(path_or_url)
         IN  IF r.status >= 400 THEN [raised |-> TRUE, img |-> NoArray]
             ELSE LET img == imdecode(r.content)
                  IN  [raised |-> img = NoArray, img |-> img]
    ELSE IF path_or_url \notin {PathWide, PathBad} THEN [raised |-> TRUE, img |-> NoArray]
    ELSE LET img == imdecode(ReadBytes(path_or_url))
         IN  [raised |-> img = NoArray, img |-> img]

\* lines 77-84
extract_articles(data) ==
    IF data.t = "array" THEN [raised |-> FALSE, list |-> data.items]
    ELSE IF data.t = "object"
         THEN [raised |-> FALSE, list |-> IF data.has THEN data.articles ELSE <<>>]
    ELSE [raised |-> TRUE, list |-> <<>>]

(***************************************************************************)
(* numpy: base[py:py+ph, px:px+pw] = value.  The value is broadcast to the *)
(* shape of the (clipped) target slice, which fails unless each axis of    *)
(* the value has the slice's length or length 1.                           *)
(***************************************************************************)
setitem_window(arr, rect, value) ==
    LET cols == SliceRange(rect[1], rect[1] + rect[3], arr.w)
        rows == SliceRange(rect[2], rect[2] + rect[4], arr.h)
        fits == /\ value.w = cols.len \/ value.w = 1
                /\ value.h = rows.len \/ value.h = 1
    IN  IF ~fits THEN [raised |-> TRUE, arr |-> arr]
        ELSE [raised |-> FALSE,
              arr |-> [arr EXCEPT !.px =
                  [p \in DOMAIN arr.px |->
                      IF /\ cols.lo <= p[1] /\ p[1] < cols.lo + cols.len
                         /\ rows.lo <= p[2] /\ p[2] < rows.lo + rows.len
                      THEN value.px[<<IF value.w = 1 THEN 0 ELSE p[1] - cols.lo,
                                      IF value.h = 1 THEN 0 ELSE p[2] - rows.lo>>]
                      ELSE arr.px[p]]]]

\* A plain assignment instead of a copy: the same array under another name
ndarray_alias(ref, site) == ref

\* ndarray.copy(): the reference to the new array, allocated at `site`
ndarray_copy(ref, site) == site

\* f"{i:03d}.png"
RECURSIVE Digits(_)
Digits(n) == IF n < 10 THEN <<n>> ELSE Digits(n \div 10) \o <<n % 10>>

RECURSIVE ZeroPad(_, _)
ZeroPad(d, width) == IF Len(d) >= width THEN d ELSE ZeroPad(<<0>> \o d, width)

NameWidth == 3

\* A name made of the 0-based position
out_name_from_zero(n) == [digits |-> ZeroPad(Digits(n - 1), 3), ext |-> ".png"]

out_name(n) == [digits |-> ZeroPad(Digits(n), NameWidth), ext |-> ".png"]

(***************************************************************************)
(* The runs.                                                               *)
(***************************************************************************)
MaxArticles == 2

TplCard  == [w |-> 8, h |-> 7, ground |-> WHITE,
             boxes |-> <<Box(1, 1, 6, 5, DARK, "dot")>>]
TplTwo   == [w |-> 8, h |-> 6, ground |-> MAROON,
             boxes |-> <<Box(0, 1, 6, 5, BLACK, "solid"), Box(7, 0, 1, 1, BLACK, "solid")>>]
TplBlank == [w |-> 3, h |-> 3, ground |-> TEAL, boxes |-> <<>>]
TplEdge  == [w |-> 3, h |-> 3, ground |-> WHITE,
             boxes |-> <<Box(2, 2, 1, 1, BLACK, "solid")>>]
TplTall  == [w |-> 3, h |-> 53, ground |-> WHITE,
             boxes |-> <<Box(0, 0, 3, 53, BLACK, "solid")>>]

MainTemplates == {TplCard, TplTwo, TplBlank, TplEdge, TplTall}

ArticleValues ==
    { JNum(5),
      [t |-> "object", has |-> FALSE, article_image |-> JNull],
      JArticle(JStr(<<>>)),
      JArticle(JStr(<<" ", " ">>)),
      JArticle(JNum(7)),
      JArticle(JStr(<<"http://", "gone">>)),
      JArticle(JStr(PathBad)),
      JArticle(JStr(<<" ">> \o PathWide \o <<" ">>)),
      JArticle(JStr(UrlTall)) }

ArticleLists == UNION {[1 .. n -> ArticleValues] : n \in 0 .. MaxArticles}

JsonDocs ==
    {[t |-> "array", items |-> l] : l \in ArticleLists}
    \cup {[t |-> "object", has |-> TRUE, articles |-> l] :
              l \in {a \in ArticleLists : Len(a) <= 1}}
    \cup {[t |-> "object", has |-> FALSE, articles |-> <<>>], JNum(5)}

Sites == {"template_bgr", "overlay_src", "mask3", "photo_bgr", "fitted", "base", "composed"}
None == "None"

Init ==
    /\ pc = "start"
    /\ templateFile \in {[exists |-> TRUE, image |-> t] : t \in MainTemplates}
                        \cup {[exists |-> FALSE, image |-> TplBlank]}
    /\ jsonFile \in {[exists |-> TRUE, data |-> d] : d \in JsonDocs}
                    \cup {[exists |-> FALSE, data |-> JNum(5)]}
    /\ heap = [s \in Sites |-> NoArray]
    /\ template_bgr = None /\ overlay_src = None /\ mask3 = None
    /\ window = <<>>
    /\ articles = <<>> /\ total = 0 /\ i = 0
    /\ img_url = <<>>
    /\ photo_bgr = None /\ fitted = None /\ base = None /\ composed = None
    /\ disk = <<>>
    /\ log = <<>>
    /\ fetches = {}
    /\ error = None
    /\ FitIdle /\ DetIdle /\ CmpIdle

Abort(e) == pc' = "aborted" /\ error' = e

\* lines 88-93
CheckPaths ==
    /\ pc = "start"
    /\ IF ~templateFile.exists THEN Abort("FileNotFoundError: template")
       ELSE IF ~jsonFile.exists THEN Abort("FileNotFoundError: json")
       ELSE pc' = "imread" /\ error' = error
    /\ UNCHANGED <<pureVars, inputs, heap, setup, listing, i, locals, disk, log, fetches>>

\* lines 95-97
LoadTemplate ==
    /\ pc = "imread"
    /\ template_bgr' = "template_bgr"
    /\ overlay_src' = ndarray_copy(template_bgr', "overlay_src")
    /\ mask3' = "mask3"
    /\ heap' = [[[heap EXCEPT ![template_bgr'] = TemplateImage(templateFile.image)]
                       EXCEPT ![overlay_src'] = TemplateImage(templateFile.image)]
                       EXCEPT ![mask3'] = build_overlay_mask(TemplateImage(templateFile.image))]
    /\ pc' = "detect"
    /\ UNCHANGED <<pureVars, inputs, window, listing, i, locals, outputs>>

\* line 99
DetectWindow ==
    /\ pc = "detect"
    /\ \E r \in detect_black_box(heap[template_bgr]) :
          IF r.raised
          THEN Abort("RuntimeError: No black rectangle found in template.")
               /\ window' = window
          ELSE pc' = "extract" /\ window' = r.rect /\ error' = error
    /\ UNCHANGED <<pureVars, inputs, heap, template_bgr, overlay_src, mask3, listing,
                   i, locals, disk, log, fetches>>

\* lines 101-102
ExtractArticles ==
    /\ pc = "extract"
    /\ LET r == extract_articles(jsonFile.data)
       IN  IF r.raised
           THEN Abort("ValueError: Unexpected JSON structure") /\ UNCHANGED listing
           ELSE /\ articles' = r.list /\ total' = Len(r.list)
                /\ pc' = "for" /\ error' = error
    /\ UNCHANGED <<pureVars, inputs, heap, setup, i, locals, disk, log, fetches>>

\* lines 104-108: the next article and its image reference
ReadArticle ==
    /\ pc = "for" /\ i < total
    /\ i' = i + 1
    /\ LET art == articles[i + 1]
       IN  IF art.t /= "object"
           THEN Abort("AttributeError: get") /\ UNCHANGED <<img_url, log>>
           ELSE IF ImageOrEmpty(art).t /= "string"
           THEN Abort("AttributeError: strip") /\ UNCHANGED <<img_url, log>>
           ELSE /\ img_url' = strip(ImageOrEmpty(art).v)
                /\ error' = error
                /\ IF img_url' = <<>>
                   THEN pc' = "for" /\ log' = Append(log, <<i + 1, "Skipped">>)
                   ELSE pc' = "load" /\ log' = log
    /\ UNCHANGED <<pureVars, inputs, heap, setup, listing,
                   photo_bgr, fitted, base, composed, disk, fetches>>

\* lines 123-124
Fail == pc' = "for" /\ log' = Append(log, <<i, "FAIL">>)

\* line 110
BindPhoto(r) ==
    IF r.raised
    THEN Fail /\ UNCHANGED <<heap, photo_bgr>>
    ELSE /\ photo_bgr' = "photo_bgr"
         /\ heap' = [heap EXCEPT ![photo_bgr'] = r.img]
         /\ pc' = "fit" /\ log' = log

LoadPhoto ==
    /\ pc = "load"
    /\ fetches' = fetches \cup {<<i, img_url>>}
    /\ BindPhoto(load_cv(img_url))
    /\ UNCHANGED <<pureVars, inputs, setup, listing, i, img_url, fitted, base, composed,
                   disk, error>>

\* line 111
BindFitted(r) ==
    IF r.raised
    THEN Fail /\ UNCHANGED <<heap, fitted>>
    ELSE /\ fitted' = "fitted"
         /\ heap' = [heap EXCEPT ![fitted'] = r.img]
         /\ pc' = "copy" /\ log' = log

FitPhoto ==
    /\ pc = "fit"
    /\ BindFitted(fit_cover(heap[photo_bgr], window[3], window[4]))
    /\ UNCHANGED <<pureVars, inputs, setup, listing, i, img_url, photo_bgr, base, composed,
                   disk, fetches, error>>

\* line 114
CopyTemplate ==
    /\ pc = "copy"
    /\ base' = ndarray_copy(template_bgr, "base")
    /\ heap' = [heap EXCEPT ![base'] = heap[template_bgr]]
    /\ pc' = "insert"
    /\ UNCHANGED <<pureVars, inputs, setup, listing, i, img_url, photo_bgr, fitted, composed,
                   outputs>>

\* line 115
StoreWindow(r) ==
    IF r.raised
    THEN Fail /\ UNCHANGED heap
    ELSE /\ heap' = [heap EXCEPT ![base] = r.arr]
         /\ pc' = "compose" /\ log' = log

InsertPhoto ==
    /\ pc = "insert"
    /\ StoreWindow(setitem_window(heap[base], window, heap[fitted]))
    /\ UNCHANGED <<pureVars, inputs, setup, listing, i, locals, disk, fetches, error>>

\* line 118
Compose ==
    /\ pc = "compose"
    /\ composed' = "composed"
    /\ heap' = [heap EXCEPT ![composed'] =
                   composite_with_template(heap[base], heap[overlay_src], heap[mask3])]
    /\ pc' = "imwrite"
    /\ UNCHANGED <<pureVars, inputs, setup, listing, i, img_url, photo_bgr, fitted, base,
                   outputs>>

\* lines 120-122; disk is the sequence of files written, in order
WriteFile ==
    /\ pc = "imwrite"
    /\ disk' = Append(SelectSeq(disk, LAMBDA f : f.name /= out_name(i)),
                      [name |-> out_name(i), image |-> heap[composed]])
    /\ log' = Append(log, <<i, "OK">>)
    /\ pc' = "for"
    /\ UNCHANGED <<pureVars, inputs, heap, setup, listing, i, locals, fetches, error>>

\* line 126
Finish ==
    /\ pc = "for" /\ i = total
    /\ pc' = "done"
    /\ UNCHANGED <<pureVars, mainVars>>

Next ==
    \/ CheckPaths
    \/ LoadTemplate
    \/ DetectWindow
    \/ ExtractArticles
    \/ ReadArticle
    \/ LoadPhoto
    \/ FitPhoto
    \/ CopyTemplate
    \/ InsertPhoto
    \/ Compose
    \/ WriteFile
    \/ Finish

Spec == Init /\ [][Next]_vars

(***************************************************************************)
(* Properties of main.                                                     *)
(***************************************************************************)
Template == TemplateImage(templateFile.image)

InLoop == pc \in {"for", "load", "fit", "copy", "insert", "compose", "imwrite", "done"}

NoWindowError == "RuntimeError: No black rectangle found in template."

\* C2: whatever is wrong with an article (reference missing or not a
\* string, record that is not an object, fetch, decode, fit or composition
\* failure), the run goes on to the next article and to 'Done': the run is
\* never aborted once the loop over the articles has started.
NoArticleAbortsTheRun == pc = "aborted" => i = 0

\* C5: when the template's black mask is entirely false, detect_black_box
\* raises the no-window error and main aborts with it before any article is
\* fetched, fitted, composed or written: the run has no per-article step.
MaskEntirelyFalse ==
    \A p \in DOMAIN Template.px : inRange(BGR2HSV(Template.px[p]), LOWER, UPPER) = 0

NoWindowAbortsBeforeAnyArticle ==
    (pc \notin {"start", "imread", "detect"} /\ templateFile.exists /\ jsonFile.exists
        /\ MaskEntirelyFalse) =>
        /\ pc = "aborted" /\ error = NoWindowError
        /\ i = 0 /\ articles = <<>>
        /\ fetches = {} /\ disk = <<>> /\ log = <<>>
        /\ photo_bgr = None /\ fitted = None /\ base = None /\ composed = None

NoWindowAbortWitness ==
    /\ pc = "aborted" /\ error = NoWindowError
    /\ templateFile.image = TplBlank
    /\ jsonFile.data.t = "array" /\ Len(jsonFile.data.items) = 2
    /\ jsonFile.data.items[1] = JArticle(JStr(UrlTall))

\* C7: the template array, the overlay copy, the mask and the window are
\* never modified once computed, whatever happens to the articles; every
\* article is composed on a fresh copy of the template, so the file written
\* for article i is a function of the template and of article i alone.
PhotocardOf(k) ==
    composite_with_template(
        setitem_window(Template, window,
                       fit_cover(load_cv(strip(articles[k].article_image.v)).img,
                                 window[3], window[4]).img).arr,
        Template, build_overlay_mask(Template))

JustWritten == pc = "for" /\ log /= <<>> /\ log[Len(log)] = <<i, "OK">>

TemplateStateIsReadOnly ==
    /\ [](InLoop =>
            /\ heap[template_bgr] = Template
            /\ heap[overlay_src] = Template
            /\ heap[mask3] = build_overlay_mask(Template))
    /\ [](JustWritten => disk[Len(disk)].image = PhotocardOf(i))
    /\ [][InLoop =>
            /\ window' = window
            /\ template_bgr' = template_bgr /\ overlay_src' = overlay_src /\ mask3' = mask3
            /\ heap'[template_bgr] = heap[template_bgr]
            /\ heap'[overlay_src] = heap[overlay_src]
            /\ heap'[mask3] = heap[mask3]
            /\ \A n \in 1 .. Len(disk) : disk'[n] = disk[n]]_vars

TemplateReadOnlyWitness ==
    /\ pc = "done" /\ Len(disk) = 2
    /\ templateFile.image = TplCard
    /\ disk[1].image /= disk[2].image
    /\ disk[1].image /= Template
    /\ heap[base] /= Template
    /\ heap[template_bgr] = Template

\* C8: after a run, the files written are exactly the names made of the
\* 1-based position, zero-padded to three digits, of the articles that have
\* a non-empty image reference and whose load, fit and composition
\* succeeded; an article without reference (absent, empty, whitespace only)
\* is skipped without a fetch and writes no file, a failed article writes
\* no file, and no two articles write the same name.
ThreeDigitName(k) ==
    [digits |-> <<(k \div 100) % 10, (k \div 10) % 10, k % 10>>, ext |-> ".png"]

Reference(k) ==
    IF articles[k].t = "object" /\ articles[k].has /\ articles[k].article_image.t = "string"
    THEN SelectSeq(articles[k].article_image.v, LAMBDA c : c /= " ")
    ELSE <<>>

Malformed(k) ==
    \/ articles[k].t /= "object"
    \/ /\ articles[k].has
       /\ articles[k].article_image.t = "number"
       /\ articles[k].article_image.v /= 0

Succeeds(k) ==
    /\ ~Malformed(k)
    /\ Reference(k) \in {PathWide, UrlTall}
    /\ ~FitGeometry(IF Reference(k) = PathWide THEN 2 ELSE 1,
                    IF Reference(k) = PathWide THEN 1 ELSE 49,
                    window[3], window[4]).raised

NameProbe == {1, 9, 10, 99, 100, 999, 1000, 1001}

FilesAreTheSucceededArticles ==
    (pc \in {"done", "aborted"} /\ window /= <<>>) =>
        /\ {disk[n].name : n \in 1 .. Len(disk)}
              = {ThreeDigitName(k) : k \in {j \in 1 .. i : Succeeds(j)}}
        /\ Cardinality({disk[n].name : n \in 1 .. Len(disk)}) = Len(disk)
        /\ \A k \in 1 .. i :
              /\ (~Malformed(k) /\ Reference(k) = <<>>) =>
                    /\ \A f \in fetches : f[1] /= k
                    /\ \E n \in 1 .. Len(log) : log[n] = <<k, "Skipped">>
              /\ (\E n \in 1 .. Len(log) : log[n] = <<k, "FAIL">>) =>
                    \A n \in 1 .. Len(disk) : disk[n].name /= ThreeDigitName(k)
        /\ pc = "done" => i = Len(articles)
        /\ \A a \in NameProbe, b \in NameProbe : a /= b => out_name(a) /= out_name(b)

FilesWitness ==
    /\ pc = "done" /\ Len(articles) = 2
    /\ articles[1] = JArticle(JStr(<<" ", " ">>))
    /\ articles[2] = JArticle(JStr(<<" ">> \o PathWide \o <<" ">>))
    /\ Len(disk) = 1 /\ disk[1].name.digits = <<0, 0, 2>>
    /\ fetches = {<<2, PathWide>>}

\* C10: a composed image has the template's dimensions; a pixel inside the
\* detected inset rectangle that the mask classifies black carries the
\* fitted photo's pixel; every other pixel (outside the rectangle, the
\* 2-pixel black rim included, or classified as frame) carries the
\* template's pixel.
InWindow(p) ==
    /\ window[1] <= p[1] /\ p[1] < window[1] + window[3]
    /\ window[2] <= p[2] /\ p[2] < window[2] + window[4]

FittedAt(p) ==
    heap[fitted].px[<<IF heap[fitted].w = 1 THEN 0 ELSE p[1] - window[1],
                      IF heap[fitted].h = 1 THEN 0 ELSE p[2] - window[2]>>]

PhotoShowsOnlyThroughTheWindow ==
    pc = "imwrite" =>
        /\ heap[composed].w = Template.w /\ heap[composed].h = Template.h
        /\ DOMAIN heap[composed].px = DOMAIN Template.px
        /\ \A p \in DOMAIN Template.px :
              IF InWindow(p) /\ inRange(BGR2HSV(Template.px[p]), LOWER, UPPER) = 255
              THEN heap[composed].px[p] = FittedAt(p)
              ELSE heap[composed].px[p] = Template.px[p]

PhotoThroughWindowWitness ==
    /\ pc = "imwrite" /\ templateFile.image = TplCard
    /\ window = <<3, 3, 2, 1>>
    /\ heap[composed].px[<<4, 3>>] = GREEN
    /\ heap[composed].px[<<3, 3>>] = WHITE
    /\ heap[composed].px[<<1, 1>>] = DARK
    /\ heap[composed].px[<<2, 2>>] = WHITE

====
